---------------------------- MODULE Spec2Model ----------------------------
(***************************************************************************)
(* A model of the jigsaw puzzle generator (generatePuzzle, drawJigsawPath,  *)
(* drawTab) and of the JigsawGame component that plays the generated       *)
(* puzzle.                                                                  *)
(*                                                                          *)
(* JavaScript numbers are IEEE-754 binary64 values.  The layout arithmetic  *)
(* of generatePuzzle divides and multiplies them, so it is modelled with    *)
(* correctly rounded binary64 operations (round to nearest, ties to even)   *)
(* over arbitrary-precision naturals.  Values stay far from the subnormal   *)
(* and overflow ranges, which are not modelled.                             *)
(***************************************************************************)
EXTENDS Integers, Sequences, FiniteSets, TLC

(***************************************************************************)
(* Arbitrary-precision naturals: little-endian sequences of limbs in base   *)
(* 2^15, without leading zero limbs; the empty sequence is zero.            *)
(***************************************************************************)
LimbBits == 5 * 3

BBase == 2 ^ LimbBits

RECURSIVE BNorm(_)
BNorm(a) ==
  IF a = << >> THEN << >>
  ELSE IF a[Len(a)] = 0 THEN BNorm(SubSeq(a, 1, Len(a) - 1))
  ELSE a

RECURSIVE BFromNat(_)
BFromNat(n) ==
  IF n = 0 THEN << >> ELSE <<n % BBase>> \o BFromNat(n \div BBase)

RECURSIVE BToNat(_)
BToNat(a) ==
  IF a = << >> THEN 0 ELSE a[1] + BBase * BToNat(Tail(a))

BLimb(a, i) == IF i <= Len(a) THEN a[i] ELSE 0

RECURSIVE BCmpFrom(_, _, _)
BCmpFrom(a, b, i) ==
  IF i = 0 THEN 0
  ELSE IF a[i] < b[i] THEN -1
  ELSE IF a[i] > b[i] THEN 1
  ELSE BCmpFrom(a, b, i - 1)

BCmp(a, b) ==
  IF Len(a) < Len(b) THEN -1
  ELSE IF Len(a) > Len(b) THEN 1
  ELSE BCmpFrom(a, b, Len(a))

RECURSIVE BAddC(_, _, _, _)
BAddC(a, b, i, carry) ==
  IF i > Len(a) /\ i > Len(b)
  THEN (IF carry = 0 THEN << >> ELSE <<carry>>)
  ELSE LET s == BLimb(a, i) + BLimb(b, i) + carry
       IN  <<s % BBase>> \o BAddC(a, b, i + 1, s \div BBase)

BAdd(a, b) == BAddC(a, b, 1, 0)

RECURSIVE BSubC(_, _, _, _)
BSubC(a, b, i, borrow) ==
  IF i > Len(a) THEN << >>
  ELSE LET d == a[i] - BLimb(b, i) - borrow
       IN  IF d < 0 THEN <<d + BBase>> \o BSubC(a, b, i + 1, 1)
           ELSE <<d>> \o BSubC(a, b, i + 1, 0)

\* a - b, for a >= b
BSub(a, b) == BNorm(BSubC(a, b, 1, 0))

RECURSIVE BMulSmallC(_, _, _, _)
BMulSmallC(a, k, i, carry) ==
  IF i > Len(a) THEN BFromNat(carry)
  ELSE LET p == a[i] * k + carry
       IN  <<p % BBase>> \o BMulSmallC(a, k, i + 1, p \div BBase)

\* a * k, for 0 <= k < BBase
BMulSmall(a, k) == IF k = 0 THEN << >> ELSE BMulSmallC(a, k, 1, 0)

RECURSIVE BMulFrom(_, _, _)
BMulFrom(a, b, i) ==
  IF i > Len(b) THEN << >>
  ELSE BAdd(BMulSmall(a, b[i]),
            LET rest == BMulFrom(a, b, i + 1)
            IN  IF rest = << >> THEN << >> ELSE <<0>> \o rest)

BMul(a, b) == IF a = << >> THEN << >> ELSE BMulFrom(a, b, 1)

BitLenLimb(x) == CHOOSE n \in 1..LimbBits : 2 ^ (n - 1) <= x /\ x < 2 ^ n

BBitLen(a) ==
  IF a = << >> THEN 0 ELSE LimbBits * (Len(a) - 1) + BitLenLimb(a[Len(a)])

\* bit i (bit 0 is the least significant)
BBit(a, i) == (BLimb(a, (i \div LimbBits) + 1) \div (2 ^ (i % LimbBits))) % 2

BZeros(n) == [i \in 1..n |-> 0]

BShl(a, k) ==
  IF a = << >> THEN << >>
  ELSE BZeros(k \div LimbBits) \o BMulSmall(a, 2 ^ (k % LimbBits))

RECURSIVE BDivSmallFrom(_, _, _, _)
BDivSmallFrom(a, d, i, rem) ==
  IF i = 0 THEN << >>
  ELSE LET cur == rem * BBase + a[i]
       IN  BDivSmallFrom(a, d, i - 1, cur % d) \o <<cur \div d>>

\* floor(a / d), for 0 < d <= BBase
BDivSmall(a, d) == BNorm(BDivSmallFrom(a, d, Len(a), 0))

\* floor(a / 2^k)
BShr(a, k) ==
  IF k \div LimbBits >= Len(a) THEN << >>
  ELSE BDivSmall(SubSeq(a, (k \div LimbBits) + 1, Len(a)), 2 ^ (k % LimbBits))

RECURSIVE BDigit(_, _, _, _)
\* the largest g in lo..hi with d * g <= r, for d * lo <= r
BDigit(r, d, lo, hi) ==
  IF lo = hi THEN lo
  ELSE LET mid == (lo + hi + 1) \div 2
       IN  IF BCmp(BMulSmall(d, mid), r) <= 0
           THEN BDigit(r, d, mid, hi)
           ELSE BDigit(r, d, lo, mid - 1)

RECURSIVE BDivFrom(_, _, _, _, _)
BDivFrom(n, d, i, q, r) ==
  IF i = 0 THEN [q |-> BNorm(q), r |-> r]
  ELSE LET r2 == BNorm(<<n[i]>> \o r)
           g  == BDigit(r2, d, 0, BBase - 1)
       IN  BDivFrom(n, d, i - 1, <<g>> \o q, BSub(r2, BMulSmall(d, g)))

\* quotient and remainder of n by d > 0 (long division, one limb at a time)
BDivMod(n, d) == BDivFrom(n, d, Len(n), << >>, << >>)

BIsOdd(a) == a # << >> /\ a[1] % 2 = 1

(***************************************************************************)
(* binary64 values: s * m * 2^e with s in {-1,0,1} and m an odd natural of  *)
(* at most MantBits bits (zero is [s |-> 0, m |-> <<>>, e |-> 0]), so two   *)
(* records are equal exactly when their values are.                         *)
(***************************************************************************)
MantBits == 50 + 3

RECURSIVE TrailingZeros(_, _)
TrailingZeros(a, i) == IF BBit(a, i) = 1 THEN i ELSE TrailingZeros(a, i + 1)

FCanon(s, m, e) ==
  IF s = 0 \/ m = << >> THEN [s |-> 0, m |-> << >>, e |-> 0]
  ELSE LET z == TrailingZeros(m, 0)
       IN  [s |-> s, m |-> BShr(m, z), e |-> e + z]

\* the binary64 value nearest to s * m * 2^e, ties to even
FRoundTo(s, m, e) ==
  LET bl == BBitLen(m)
  IN  IF bl <= MantBits THEN FCanon(s, m, e)
      ELSE LET k    == bl - MantBits
               q    == BShr(m, k)
               rem  == BSub(m, BShl(q, k))
               half == BShl(<<1>>, k - 1)
               c    == BCmp(rem, half)
               up   == c > 0 \/ (c = 0 /\ BIsOdd(q))
           IN  FCanon(s, IF up THEN BAdd(q, <<1>>) ELSE q, e + k)

FZero == [s |-> 0, m |-> << >>, e |-> 0]

FFromInt(n) ==
  IF n = 0 THEN FZero
  ELSE IF n > 0 THEN FRoundTo(1, BFromNat(n), 0)
  ELSE FRoundTo(-1, BFromNat(-n), 0)

FNeg(x) == [x EXCEPT !.s = -x.s]

\* x * y
FMul(x, y) == FRoundTo(x.s * y.s, BMul(x.m, y.m), x.e + y.e)

\* x / y, for y # 0: the quotient is taken to MantBits + 2 bits or more and a
\* sticky bit stands for the rest, which rounds as the exact quotient does
FDiv(x, y) ==
  IF x.s = 0 THEN FZero
  ELSE LET need == (MantBits + 2) + BBitLen(y.m) - BBitLen(x.m)
           k    == IF need > 0 THEN need ELSE 0
           dm   == BDivMod(BShl(x.m, k), y.m)
           m2   == BAdd(BMulSmall(dm.q, 2), IF dm.r = << >> THEN << >> ELSE <<1>>)
       IN  FRoundTo(x.s * y.s, m2, x.e - y.e - k - 1)

\* the exact sum, as an unrounded triple
FSumExact(x, y) ==
  IF x.s = 0 THEN [s |-> y.s, m |-> y.m, e |-> y.e]
  ELSE IF y.s = 0 THEN [s |-> x.s, m |-> x.m, e |-> x.e]
  ELSE LET e  == IF x.e < y.e THEN x.e ELSE y.e
           xm == BShl(x.m, x.e - e)
           ym == BShl(y.m, y.e - e)
           c  == BCmp(xm, ym)
       IN  IF x.s = y.s THEN [s |-> x.s, m |-> BAdd(xm, ym), e |-> e]
           ELSE IF c = 0 THEN [s |-> 0, m |-> << >>, e |-> 0]
           ELSE IF c > 0 THEN [s |-> x.s, m |-> BSub(xm, ym), e |-> e]
           ELSE [s |-> y.s, m |-> BSub(ym, xm), e |-> e]

\* x + y and x - y
FAdd(x, y) == LET t == FSumExact(x, y) IN FRoundTo(t.s, t.m, t.e)

FSub(x, y) == FAdd(x, FNeg(y))

\* the sign of x - y: the comparison of the two values
FCmp(x, y) == FSumExact(x, FNeg(y)).s

FLt(x, y) == FCmp(x, y) < 0

FLe(x, y) == FCmp(x, y) <= 0

FGt(x, y) == FCmp(x, y) > 0

FGe(x, y) == FCmp(x, y) >= 0

\* Math.min
FMin(x, y) == IF FLt(y, x) THEN y ELSE x

\* Math.round of x >= 0 as an integer: floor(x + 1/2), computed exactly
FRoundInt(x) ==
  IF x.s = 0 THEN 0
  ELSE IF x.e >= 0 THEN x.s * BToNat(BShl(x.m, x.e))
  ELSE BToNat(BShr(BAdd(x.m, BShl(<<1>>, (-x.e) - 1)), -x.e))

FIsInt(x) == x.e >= 0

\* the integer an integer-valued x is
FToInt(x) == x.s * BToNat(BShl(x.m, x.e))

(***************************************************************************)
(* generatePuzzle: aspect fit, grid size, piece size (the head of           *)
(* img.onload).  The arguments are integers, as the image's intrinsic size,  *)
(* the Difficulty and the caller's clientWidth - 48 are.                     *)
(***************************************************************************)
Null == "null"

\* enum Difficulty
Easy == 3

Medium == 5

Hard == 10

\* the image's intrinsic size and the arguments gridSize, maxContainerWidth,
\* maxContainerHeight of one call
GenInput(imgW, imgH, gridSize, maxW, maxH) ==
  [imgW |-> imgW, imgH |-> imgH, gridSize |-> gridSize, maxW |-> maxW, maxH |-> maxH]

\* TAB_SIZE_RATIO of ../constants: the literal 0.2, as a binary64 value
TAB_SIZE_RATIO == FDiv(FFromInt(1), FFromInt(5))

\* imageAspect = imgW / imgH
ImageAspect(imgW, imgH) == FDiv(FFromInt(imgW), FFromInt(imgH))

\* containerAspect = maxContainerWidth / maxContainerHeight
ContainerAspect(maxW, maxH) == FDiv(FFromInt(maxW), FFromInt(maxH))

\* imageAspect > containerAspect
Wider(ia, ca) == FGt(ia, ca)

PuzzleWidth(ia, ca, maxW, maxH) ==
  IF Wider(ia, ca) THEN FFromInt(maxW) ELSE FMul(FFromInt(maxH), ia)

PuzzleHeight(ia, ca, maxW, maxH) ==
  IF Wider(ia, ca) THEN FDiv(FFromInt(maxW), ia) ELSE FFromInt(maxH)

GridRows(ia, gridSize) ==
  IF FGe(ia, FFromInt(1)) THEN gridSize
  ELSE FRoundInt(FMul(FFromInt(gridSize), FDiv(FFromInt(1), ia)))

GridCols(ia, gridSize) ==
  IF FGe(ia, FFromInt(1)) THEN FRoundInt(FMul(FFromInt(gridSize), ia))
  ELSE gridSize

\* pieceWidth, pieceHeight and tabSize
LayoutPieces(pzW, pzH, nr, nc, pw, ph) ==
  [puzzleWidth |-> pzW, puzzleHeight |-> pzH, rows |-> nr, cols |-> nc,
   pieceWidth |-> pw, pieceHeight |-> ph,
   tabSize |-> FMul(FMin(pw, ph), TAB_SIZE_RATIO)]

LayoutGridMut(pzW, pzH, nr, nc) ==
  LayoutPieces(pzW, pzH, nr, nc, FDiv(pzW, FFromInt(nr)), FDiv(pzH, FFromInt(nc)))

LayoutGrid(pzW, pzH, nr, nc) ==
  LayoutPieces(pzW, pzH, nr, nc, FDiv(pzW, FFromInt(nc)), FDiv(pzH, FFromInt(nr)))

LayoutFit(in, ia, ca) ==
  LayoutGrid(PuzzleWidth(ia, ca, in.maxW, in.maxH), PuzzleHeight(ia, ca, in.maxW, in.maxH),
             GridRows(ia, in.gridSize), GridCols(ia, in.gridSize))

\* everything img.onload computes before its loops
Layout(in) ==
  LayoutFit(in, ImageAspect(in.imgW, in.imgH), ContainerAspect(in.maxW, in.maxH))

(***************************************************************************)
(* The state.                                                              *)
(***************************************************************************)
\* one call of generatePuzzle
VARIABLES
  gin,          \* the call's arguments and the image's intrinsic size
  gpc,          \* "load": waiting for the image; "shapes", "pieces": inside
                \* the loops of img.onload; "returned": img.onload returned;
                \* "failed": img.onerror ran
  lay,          \* what Layout computed (Null before img.onload)
  gr, gc,       \* the loop indices r, c
  shapes,       \* the shapes grid: the cells assigned so far -> PieceShape
  gpieces,      \* the pieces array
  loadedCount,
  promise       \* "pending", "resolved" or "rejected"

genVars == <<gin, gpc, lay, gr, gc, shapes, gpieces, loadedCount, promise>>

\* two neighbouring pieces rasterized by the piece loop
VARIABLES
  pin,      \* pieceWidth, pieceHeight, tabSize, the cell, the side, the shapes
  ppc,      \* "A": next is piece A; "B": next is piece B; "done"
  pathA, pathB

pathVars == <<pin, ppc, pathA, pathB>>

\* one mounted JigsawGame
VARIABLES
  st,           \* the component's state: the useState values, every queued
                \* update applied
  rd,           \* the state of the last render: what the handlers and the
                \* effects of that render closed over
  piecesDirty,  \* pieces was set since the last render
  client,       \* containerRef.current's clientWidth and clientHeight
  timerFired,   \* setTimeout(initGame, 100) has run
  reqs,         \* the generatePuzzle calls made so far, in order
  leaves,       \* the pointerleave events so far
  wroteBy,      \* history: the call whose result was written last (0: none)
  staleWrite    \* history: a result was written after a later call was made

gameVars ==
  <<st, rd, piecesDirty, client, timerFired, reqs, leaves, wroteBy, staleWrite>>

vars == <<genVars, pathVars, gameVars>>

(***************************************************************************)
(* generatePuzzle as a state machine: one call, from new Image() to the     *)
(* settled or forever pending promise.                                      *)
(***************************************************************************)
Cells(nr, nc) == (0..(nr - 1)) \X (0..(nc - 1))

ShapeTopMut(sh, r, c) == IF r > 0 THEN sh[<<r - 1, c>>].bottom ELSE 0

\* shapes[r][c].top
ShapeTop(sh, r, c) == IF r > 0 THEN -sh[<<r - 1, c>>].bottom ELSE 0

\* shapes[r][c].left
ShapeLeft(sh, r, c) == IF c > 0 THEN -sh[<<r, c - 1>>].right ELSE 0

ShapeRightMut(c, nc, rnd) == IF c < nc THEN rnd ELSE 0

\* shapes[r][c].right; rnd is Math.random() > 0.5 ? 1 : -1
ShapeRight(c, nc, rnd) == IF c < nc - 1 THEN rnd ELSE 0

\* shapes[r][c].bottom
ShapeBottom(r, nr, rnd) == IF r < nr - 1 THEN rnd ELSE 0

RandomEdge == {1, -1}

\* the position after (r, c) in the row-major double loop
NextRow(r, c, nc) == IF c + 1 < nc THEN r ELSE r + 1

NextCol(r, c, nc) == IF c + 1 < nc THEN c + 1 ELSE 0

\* id: r * cols + c
PieceId(r, c, nc) == r * nc + c

ShouldResolveMut(loaded, total) == loaded <= total

\* if (loadedCount === totalPieces) resolve(...)
ShouldResolve(loaded, total) == loaded = total

\* the object pushed for cell (r, c)
NewPiece(r, c, L, shape) ==
  [id |-> PieceId(r, c, L.cols), row |-> r, col |-> c,
   width  |-> FAdd(L.pieceWidth, FMul(L.tabSize, FFromInt(2))),
   height |-> FAdd(L.pieceHeight, FMul(L.tabSize, FFromInt(2))),
   shape |-> shape,
   correctPos |-> [x |-> FSub(FMul(FFromInt(c), L.pieceWidth), L.tabSize),
                   y |-> FSub(FMul(FFromInt(r), L.pieceHeight), L.tabSize)],
   currentPos |-> [x |-> FZero, y |-> FZero],
   imgUrl |-> <<"canvas", r, c>>,
   isLocked |-> FALSE, zIndex |-> 1]

\* img.onload, up to the first loop
ImgLoad ==
  /\ gpc = "load"
  /\ lay' = Layout(gin)
  /\ shapes' = << >>
  /\ gpc' = "shapes"
  /\ gr' = 0 /\ gc' = 0
  /\ UNCHANGED <<gin, gpieces, loadedCount, promise, pathVars, gameVars>>

\* img.onerror = reject
ImgError ==
  /\ gpc = "load"
  /\ gpc' = "failed"
  /\ promise' = "rejected"
  /\ UNCHANGED <<gin, lay, gr, gc, shapes, gpieces, loadedCount, pathVars, gameVars>>

\* the grid after the iteration for cell (r, c)
ShapeStep(sh, r, c, nr, nc, rndRight, rndBottom) ==
  (<<r, c>> :> [top    |-> ShapeTop(sh, r, c),
                right  |-> ShapeRight(c, nc, rndRight),
                bottom |-> ShapeBottom(r, nr, rndBottom),
                left   |-> ShapeLeft(sh, r, c)]) @@ sh

\* one iteration of the shape loop
ShapeCell ==
  /\ gpc = "shapes"
  /\ \E rndRight \in RandomEdge, rndBottom \in RandomEdge :
        shapes' = ShapeStep(shapes, gr, gc, lay.rows, lay.cols, rndRight, rndBottom)
  /\ gr' = (IF NextRow(gr, gc, lay.cols) < lay.rows
            THEN NextRow(gr, gc, lay.cols) ELSE 0)
  /\ gc' = NextCol(gr, gc, lay.cols)
  /\ gpc' = (IF NextRow(gr, gc, lay.cols) < lay.rows THEN "shapes" ELSE "pieces")
  /\ UNCHANGED <<gin, lay, gpieces, loadedCount, promise, pathVars, gameVars>>

\* one iteration of the piece loop; ctx is canvas.getContext('2d')
PieceCell ==
  /\ gpc = "pieces"
  /\ \E ctx \in {Null, "ctx"} :
        IF ctx = Null
        THEN UNCHANGED <<gpieces, loadedCount, promise>>
        ELSE /\ gpieces' = Append(gpieces, NewPiece(gr, gc, lay, shapes[<<gr, gc>>]))
             /\ loadedCount' = loadedCount + 1
             /\ promise' = (IF ShouldResolve(loadedCount', lay.rows * lay.cols)
                            THEN "resolved" ELSE promise)
  /\ gr' = (IF NextRow(gr, gc, lay.cols) < lay.rows
            THEN NextRow(gr, gc, lay.cols) ELSE 0)
  /\ gc' = NextCol(gr, gc, lay.cols)
  /\ gpc' = (IF NextRow(gr, gc, lay.cols) < lay.rows THEN "pieces" ELSE "returned")
  /\ UNCHANGED <<gin, lay, shapes, pathVars, gameVars>>


(***************************************************************************)
(* drawJigsawPath and drawTab.  A path is the sequence of canvas calls:     *)
(* <<"M", x, y>> (moveTo), <<"L", x, y>> (lineTo), <<"C", c1x, c1y, c2x,     *)
(* c2y, x, y>> (bezierCurveTo), <<"Z">> (closePath).  Coordinates are        *)
(* integers and the piece sizes multiples of 50, for which every product    *)
(* with 0.2 and every quotient by len below is exact in binary64 as well.    *)
(***************************************************************************)
\* v * 0.2, for v a multiple of 5 (sizes are multiples of 50 here)
Fifth(v) == v \div 5

Abs(v) == IF v < 0 THEN -v ELSE v

\* Math.sqrt(n), for n a perfect square no greater than bound^2
Sqrt(n, bound) == CHOOSE k \in 0..bound : k * k = n

\* nx = -dy / len * dir
TabNormalX(dx, dy, len, dir) == ((-dy) \div len) * dir

\* ny = dx / len * dir
TabNormalY(dx, dy, len, dir) == (dx \div len) * dir

DrawTab(x1, y1, x2, y2, dir, size) ==
  LET cx  == (x1 + x2) \div 2
      cy  == (y1 + y2) \div 2
      dx  == x2 - x1
      dy  == y2 - y1
      len == Sqrt(dx * dx + dy * dy, Abs(dx) + Abs(dy))
      nx  == TabNormalX(dx, dy, len, dir)
      ny  == TabNormalY(dx, dy, len, dir)
      neck == Fifth(len)
      x1n == cx - (dx \div len) * neck
      y1n == cy - (dy \div len) * neck
      x2n == cx + (dx \div len) * neck
      y2n == cy + (dy \div len) * neck
      headX == cx + nx * size
      headY == cy + ny * size
  IN  << <<"C", x1n + nx * Fifth(size), y1n + ny * Fifth(size),
                headX - (dx \div len) * size, headY - (dy \div len) * Fifth(size),
                headX - (dx \div len) * Fifth(size), headY>>,
         <<"C", headX + (dx \div len) * Fifth(size), headY,
                headX + (dx \div len) * size, headY + (dy \div len) * Fifth(size),
                x2n + nx * Fifth(size), y2n + ny * Fifth(size)>>,
         <<"L", x2, y2>> >>

\* one side of drawJigsawPath: a bump, or a straight line
DrawEdge(x1, y1, x2, y2, v, size) ==
  IF v # 0 THEN DrawTab(x1, y1, x2, y2, v, size) ELSE << <<"L", x2, y2>> >>

DrawJigsawPath(x, y, w, h, shape, tabSize) ==
  << <<"M", x, y>> >>
  \o DrawEdge(x, y, x + w, y, shape.top, tabSize)
  \o DrawEdge(x + w, y, x + w, y + h, shape.right, tabSize)
  \o DrawEdge(x + w, y + h, x, y + h, shape.bottom, tabSize)
  \o DrawEdge(x, y + h, x, y, shape.left, tabSize)
  \o << <<"Z">> >>

(***************************************************************************)
(* Two neighbouring pieces rasterized by the piece loop: piece A at cell    *)
(* (r, c) and piece B at its right or bottom neighbour, each path drawn at  *)
(* the canvas offset (tabSize, tabSize).                                    *)
(***************************************************************************)
RasterA ==
  /\ ppc = "A"
  /\ pathA' = DrawJigsawPath(pin.tabSize, pin.tabSize, pin.w, pin.h,
                             pin.shapeA, pin.tabSize)
  /\ ppc' = "B"
  /\ UNCHANGED <<pin, pathB, genVars, gameVars>>

RasterB ==
  /\ ppc = "B"
  /\ pathB' = DrawJigsawPath(pin.tabSize, pin.tabSize, pin.w, pin.h,
                             pin.shapeB, pin.tabSize)
  /\ ppc' = "done"
  /\ UNCHANGED <<pin, pathA, genVars, gameVars>>

\* the cell of piece B
CellB == IF pin.side = "right" THEN <<pin.r, pin.c + 1>> ELSE <<pin.r + 1, pin.c>>

\* globalX, globalY of a cell: where its canvas origin lies in the puzzle
GlobalX(cell) == cell[2] * pin.w - pin.tabSize

GlobalY(cell) == cell[1] * pin.h - pin.tabSize


\* generatePuzzle calls, pointerleave events, zIndex values and elapsed
\* seconds of the game runs
MaxReq == 2

MaxLeave == 1

MaxZ == 3

MaxElapsed == 1

(***************************************************************************)
(* JigsawGame.  A handler or an effect reads the state of the render that   *)
(* created it (rd); a functional update is applied to the state proper (st). *)
(* React renders before the next event after pointerdown and pointerup       *)
(* (discrete events), and at some later time after pointermove,              *)
(* pointerleave, a timer callback or a promise continuation.  The doubles of *)
(* the game are whole numbers for the props and container sizes below; the   *)
(* state holds them as integers.                                             *)
(***************************************************************************)
\* SNAP_TOLERANCE of ../constants
SNAP_TOLERANCE == 2

\* the props: a square image, Difficulty.Easy
GameProps == [imgW |-> 1, imgH |-> 1, difficulty |-> Easy]

\* clientWidth, clientHeight of the container
ClientSizes == {[w |-> 78, h |-> 78], [w |-> 108, h |-> 108]}

\* the arguments initGame passes to generatePuzzle
GenArgs(cs) ==
  GenInput(GameProps.imgW, GameProps.imgH, GameProps.difficulty, cs.w - 48, cs.h - 48)

GameLayouts == [cs \in ClientSizes |-> Layout(GenArgs(cs))]

\* the shape loop, run to its end
RECURSIVE ShapeLoop(_, _, _, _, _, _)
ShapeLoop(sh, r, c, nr, nc, rnd) ==
  IF r >= nr THEN sh
  ELSE ShapeLoop(ShapeStep(sh, r, c, nr, nc, rnd[<<r, c>>].right, rnd[<<r, c>>].bottom),
                 NextRow(r, c, nc), NextCol(r, c, nc), nr, nc, rnd)

\* the piece loop, run to its end with every context acquired
PieceLoop(L, sh) ==
  [k \in 1..(L.rows * L.cols) |->
     NewPiece((k - 1) \div L.cols, (k - 1) % L.cols, L,
              sh[<<(k - 1) \div L.cols, (k - 1) % L.cols>>])]

\* x: Math.random() * (puzzleWidth - p.width) * 1.2 - (puzzleWidth * 0.1)
ShuffleCoord(rand, puzzleSide, pieceSide) ==
  FSub(FMul(FMul(rand, FSub(puzzleSide, pieceSide)), FDiv(FFromInt(12), FFromInt(10))),
       FMul(puzzleSide, FDiv(FFromInt(1), FFromInt(10))))

\* the values Math.random() returns to the shuffle: 0 or 5/32
ShuffleRands == {FZero, FDiv(FFromInt(5), FFromInt(32))}

\* a piece of the state: its doubles as integers
PxPiece(p) ==
  [p EXCEPT !.width = FToInt(@), !.height = FToInt(@),
            !.correctPos = [x |-> FToInt(@.x), y |-> FToInt(@.y)],
            !.currentPos = [x |-> FToInt(@.x), y |-> FToInt(@.y)]]

\* generatedPieces.map(...) of initGame
Shuffled(ps, L, randX, randY) ==
  [k \in DOMAIN ps |->
     [ps[k] EXCEPT !.currentPos =
        [x |-> ShuffleCoord(randX, L.puzzleWidth, ps[k].width),
         y |-> ShuffleCoord(randY, L.puzzleHeight, ps[k].height)]]]

\* the value the random edges of the game's puzzles take
GameEdges == {1}

\* the shapes grid when every random edge takes the value v
FilledShapes(nr, nc, v) ==
  ShapeLoop(<< >>, 0, 0, nr, nc,
            [cell \in Cells(nr, nc) |-> [right |-> v, bottom |-> v]])

\* what initGame sets from the resolved value
GameResultOf(L, ps) ==
  [containerSize |-> [width |-> FToInt(L.puzzleWidth), height |-> FToInt(L.puzzleHeight)],
   pieces |-> [k \in DOMAIN ps |-> PxPiece(ps[k])]]

GameResultFor(L, v, randX, randY) ==
  GameResultOf(L, Shuffled(PieceLoop(L, FilledShapes(L.rows, L.cols, v)), L, randX, randY))

\* what a resolved call makes of the state, by container size, by the value
\* all random edges take and by the value Math.random() returns to the shuffle
GameResults ==
  [cs \in ClientSizes, v \in GameEdges, rand \in ShuffleRands |->
     GameResultFor(GameLayouts[cs], v, rand, rand)]

\* draggedPieceId's null: no piece id
NoPiece == 0 - 1

\* the useState initial values
InitialState ==
  [pieces |-> << >>, isLoading |-> TRUE, containerSize |-> [width |-> 0, height |-> 0],
   draggedPieceId |-> NoPiece, dragOffset |-> [x |-> 0, y |-> 0], completed |-> FALSE,
   startTime |-> Null, elapsedTime |-> 0, timerActive |-> FALSE]

\* pieces, completed flag and timer fields of a state
Snapshot(s) ==
  [pieces |-> s.pieces, completed |-> s.completed, startTime |-> s.startTime,
   elapsedTime |-> s.elapsedTime, timerActive |-> s.timerActive]

\* initGame up to its await
InitGameHead(s) ==
  [s EXCEPT !.isLoading = TRUE, !.completed = FALSE, !.startTime = Null,
            !.elapsedTime = 0, !.timerActive = FALSE]

\* a call of generatePuzzle in flight; before is the state initGame found and
\* after the state it left at its await (both history)
Request(cs, s) ==
  [client |-> cs, status |-> "pending", before |-> Snapshot(s),
   after |-> Snapshot(InitGameHead(s))]

AllLocked(ps) == \A k \in DOMAIN ps : ps[k].isLocked

\* a render of s and its effects, Timer Effect and Check completion; the
\* completion effect runs when pieces was set since the last render (dirty)
Commit(s, dirty) ==
  LET stamped == IF s.timerActive /\ ~s.completed /\ s.startTime = Null
                 THEN [s EXCEPT !.startTime = "set"] ELSE s
  IN  IF dirty /\ Len(s.pieces) > 0 /\ AllLocked(s.pieces)
      THEN [stamped EXCEPT !.completed = TRUE, !.timerActive = FALSE]
      ELSE stamped

\* setTimeout(initGame, 100) fires
TimerFires ==
  /\ ~timerFired /\ Len(reqs) < MaxReq
  /\ timerFired' = TRUE
  /\ st' = InitGameHead(st)
  /\ reqs' = Append(reqs, Request(client, st))
  /\ UNCHANGED <<rd, piecesDirty, client, leaves, wroteBy, staleWrite, genVars, pathVars>>

\* the window's resize event runs initGame
Resize ==
  /\ Len(reqs) < MaxReq
  /\ \E cs \in ClientSizes :
        /\ client' = cs
        /\ reqs' = Append(reqs, Request(cs, st))
  /\ st' = InitGameHead(st)
  /\ UNCHANGED <<rd, piecesDirty, timerFired, leaves, wroteBy, staleWrite, genVars, pathVars>>

\* setContainerSize, setPieces(shuffled), setIsLoading(false)
Resolved(s, result) ==
  [s EXCEPT !.containerSize = result.containerSize, !.pieces = result.pieces,
            !.isLoading = FALSE]

\* the await of call i returns: the rest of the try block, then finally
Resolve ==
  \E i \in DOMAIN reqs, v \in GameEdges, rand \in ShuffleRands :
     /\ reqs[i].status = "pending"
     /\ st' = Resolved(st, GameResults[reqs[i].client, v, rand])
     /\ piecesDirty' = TRUE
     /\ reqs' = [reqs EXCEPT ![i] = [@ EXCEPT !.status = "resolved", !.before = Null, !.after = Null]]
     /\ wroteBy' = i
     /\ staleWrite' = (staleWrite \/ i < Len(reqs))
     /\ UNCHANGED <<rd, client, timerFired, leaves, genVars, pathVars>>

\* the await of call i throws: catch, then finally
Reject ==
  \E i \in DOMAIN reqs :
     /\ reqs[i].status = "pending"
     /\ st' = [st EXCEPT !.isLoading = FALSE]
     /\ reqs' = [reqs EXCEPT ![i] = [@ EXCEPT !.status = "rejected", !.before = Null, !.after = Null]]
     /\ UNCHANGED <<rd, piecesDirty, client, timerFired, leaves, wroteBy, staleWrite,
                    genVars, pathVars>>

\* getBoundingClientRect() of the board, centred in the container
BoardRect(s) ==
  [left |-> (client.w - s.containerSize.width) \div 2,
   top  |-> (client.h - s.containerSize.height) \div 2]

\* Math.max(...pieces.map(p => p.zIndex), 1)
MaxZIndex(ps) ==
  CHOOSE z \in {ps[k].zIndex : k \in DOMAIN ps} \cup {1} :
     \A y \in {ps[k].zIndex : k \in DOMAIN ps} \cup {1} : y <= z

\* prev.map(p => p.id === pieceId ? { ...p, zIndex: maxZ + 1 } : p)
RaisePiece(ps, id, z) ==
  [k \in DOMAIN ps |-> IF ps[k].id = id THEN [ps[k] EXCEPT !.zIndex = z] ELSE ps[k]]

MovePieceMut(ps, id, newX, newY) ==
  [k \in DOMAIN ps |-> [ps[k] EXCEPT !.currentPos = [x |-> newX, y |-> newY]]]

\* prev.map of handlePointerMove
MovePiece(ps, id, newX, newY) ==
  [k \in DOMAIN ps |->
     IF ps[k].id # id THEN ps[k] ELSE [ps[k] EXCEPT !.currentPos = [x |-> newX, y |-> newY]]]

\* prev.map of handlePointerUp
SnapPiece(ps, id) ==
  [k \in DOMAIN ps |->
     IF ps[k].id # id THEN ps[k]
     ELSE [ps[k] EXCEPT !.currentPos = ps[k].correctPos, !.isLocked = TRUE, !.zIndex = 0]]

\* pieces.find(p => p.id === id) finds a piece
HasPiece(ps, id) == \E k \in DOMAIN ps : ps[k].id = id

\* the piece pieces.find(p => p.id === id) finds
FindPiece(ps, id) ==
  ps[CHOOSE k \in DOMAIN ps : ps[k].id = id /\ \A j \in 1..(k - 1) : ps[j].id # id]

Dist2(p, q) == (p.x - q.x) * (p.x - q.x) + (p.y - q.y) * (p.y - q.y)

\* dist < SNAP_TOLERANCE, both sides squared
InTolerance(p, q) == Dist2(p, q) < SNAP_TOLERANCE * SNAP_TOLERANCE

\* the pieces the player presses: in the order of the array, the first one
\* shown unlocked and the locked one before it
Pressable(ps) ==
  {k \in DOMAIN ps : (\A j \in 1..(k - 1) : ps[j].isLocked)
                      /\ (\A j \in (k + 1)..Len(ps) : ~ps[j].isLocked)}

\* where on the piece the pointer goes down, from the piece's top left
GrabOffsets == {[x |-> 0, y |-> 0], [x |-> 1, y |-> 1]}

\* where the pointer takes the dragged piece, from the piece's correctPos
DropDeltas == {[x |-> 1, y |-> 1], [x |-> 2, y |-> 0], [x |-> 3, y |-> 0]}

\* handlePointerDown on a piece of the rendered board
PointerDown ==
  /\ ~rd.isLoading /\ ~rd.completed
  /\ \E k \in Pressable(rd.pieces), grab \in GrabOffsets :
        LET piece     == FindPiece(rd.pieces, rd.pieces[k].id)
            boardRect == BoardRect(rd)
            clientX   == boardRect.left + piece.currentPos.x + grab.x
            clientY   == boardRect.top + piece.currentPos.y + grab.y
            started   == IF ~rd.timerActive /\ ~rd.completed
                         THEN [st EXCEPT !.timerActive = TRUE, !.startTime = "set"]
                         ELSE st
            maxZ      == MaxZIndex(rd.pieces)
            dragging  ==
              [started EXCEPT
                 !.pieces = RaisePiece(@, piece.id, maxZ + 1),
                 !.draggedPieceId = piece.id,
                 !.dragOffset = [x |-> clientX - (boardRect.left + piece.currentPos.x),
                                 y |-> clientY - (boardRect.top + piece.currentPos.y)]]
        IN  IF piece.isLocked
            THEN /\ st' = Commit(started, piecesDirty)
                 /\ rd' = st'
            ELSE /\ maxZ < MaxZ
                 /\ st' = Commit(dragging, TRUE)
                 /\ rd' = st'
  /\ piecesDirty' = FALSE
  /\ UNCHANGED <<client, timerFired, reqs, leaves, wroteBy, staleWrite, genVars, pathVars>>

\* handlePointerMove
PointerMove ==
  /\ rd.draggedPieceId # NoPiece
  /\ \E k \in DOMAIN st.pieces, drop \in DropDeltas :
        /\ st.pieces[k].id = rd.draggedPieceId
        /\ LET boardRect == BoardRect(rd)
               clientX == boardRect.left + rd.dragOffset.x + st.pieces[k].correctPos.x + drop.x
               clientY == boardRect.top + rd.dragOffset.y + st.pieces[k].correctPos.y + drop.y
               newX    == clientX - boardRect.left - rd.dragOffset.x
               newY    == clientY - boardRect.top - rd.dragOffset.y
           IN  st' = [st EXCEPT !.pieces = MovePiece(@, rd.draggedPieceId, newX, newY)]
  /\ piecesDirty' = TRUE
  /\ UNCHANGED <<rd, client, timerFired, reqs, leaves, wroteBy, staleWrite, genVars, pathVars>>

\* handlePointerUp finds the dragged piece and takes the snap branch
ReleaseSnaps ==
  /\ HasPiece(rd.pieces, rd.draggedPieceId)
  /\ InTolerance(FindPiece(rd.pieces, rd.draggedPieceId).currentPos,
                 FindPiece(rd.pieces, rd.draggedPieceId).correctPos)

\* the state handlePointerUp leaves
Released ==
  [st EXCEPT
     !.pieces = IF ReleaseSnaps THEN SnapPiece(@, rd.draggedPieceId) ELSE @,
     !.draggedPieceId = NoPiece]

\* onPointerUp={handlePointerUp}
PointerUp ==
  /\ rd.draggedPieceId # NoPiece
  /\ st' = Commit(Released, piecesDirty \/ ReleaseSnaps)
  /\ rd' = st'
  /\ piecesDirty' = FALSE
  /\ UNCHANGED <<client, timerFired, reqs, leaves, wroteBy, staleWrite, genVars, pathVars>>

\* onPointerLeave={handlePointerUp}
PointerLeave ==
  /\ rd.draggedPieceId # NoPiece /\ leaves < MaxLeave
  /\ leaves' = leaves + 1
  /\ st' = Released
  /\ piecesDirty' = (piecesDirty \/ ReleaseSnaps)
  /\ UNCHANGED <<rd, client, timerFired, reqs, wroteBy, staleWrite, genVars, pathVars>>

\* React renders the pending updates and runs the effects
Render ==
  /\ (st # rd \/ piecesDirty)
  /\ st' = Commit(st, piecesDirty)
  /\ rd' = st'
  /\ piecesDirty' = FALSE
  /\ UNCHANGED <<client, timerFired, reqs, leaves, wroteBy, staleWrite, genVars, pathVars>>

\* the setInterval callback of the Timer Effect
Tick ==
  /\ rd.timerActive /\ ~rd.completed /\ rd.startTime # Null
  /\ \E seconds \in 0..MaxElapsed : st' = [st EXCEPT !.elapsedTime = seconds]
  /\ UNCHANGED <<rd, piecesDirty, client, timerFired, reqs, leaves, wroteBy,
                 staleWrite, genVars, pathVars>>

(***************************************************************************)
(* Bounds and inputs.                                                       *)
(***************************************************************************)
\* image sides, base grid sizes and cell counts of the generatePuzzle runs
MaxImg == 3

MaxGrid == 3

MaxCells == 9

MaxGenCells == 4

\* image sides and container bounds of the layout runs
MaxLayImg == 3

MaxLayBox == 7

\* piece sizes of the path runs, in units of 50 pixels
MaxPieceScale == 2

Min(a, b) == IF a < b THEN a ELSE b

GenBox == [maxW |-> 12, maxH |-> 12]

CellCount(in) ==
  GridRows(ImageAspect(in.imgW, in.imgH), in.gridSize)
    * GridCols(ImageAspect(in.imgW, in.imgH), in.gridSize)

GridInputs(maxCells) ==
  {in \in {GenInput(w, h, g, GenBox.maxW, GenBox.maxH) :
             w \in 1..MaxImg, h \in 1..MaxImg, g \in 1..MaxGrid} :
     CellCount(in) <= maxCells}

\* the scenario of the specification (800x400 in 500x500, grid 5) and an image
\* whose aspect ratio equals the container's
LayExamples ==
  {GenInput(800, 400, Medium, 500, 500), GenInput(7, 25, Hard, 7, 25)}

LayInputs ==
  {GenInput(w, h, Easy, mw, mh) :
     w \in 1..MaxLayImg, h \in 1..MaxLayImg, mw \in 1..MaxLayBox, mh \in 1..MaxLayBox}
  \cup LayExamples

EdgeValues == {-1, 0, 1}

PathShapes ==
  [top : EdgeValues, right : EdgeValues, bottom : EdgeValues, left : EdgeValues]

\* piece A with a bump on the side it shares with piece B, and piece B with
\* the mated value there (far is B's edge opposite the shared one)
MatingShapes(side) ==
  {[a |-> sa,
    b |-> IF side = "right"
          THEN [top |-> 0, right |-> far, bottom |-> 0, left |-> -sa.right]
          ELSE [top |-> -sa.bottom, right |-> 0, bottom |-> far, left |-> 0]] :
     sa \in {sh \in PathShapes : IF side = "right" THEN sh.right # 0 ELSE sh.bottom # 0},
     far \in EdgeValues}

MatingInputs ==
  {[w |-> 50 * kw, h |-> 50 * kh, tabSize |-> Fifth(Min(50 * kw, 50 * kh)),
    r |-> cell[1], c |-> cell[2], side |-> sd[1], shapeA |-> sd[2].a, shapeB |-> sd[2].b] :
     kw \in 1..MaxPieceScale, kh \in 1..MaxPieceScale,
     cell \in {<<0, 0>>, <<1, 1>>},
     sd \in UNION {{<<side, m>> : m \in MatingShapes(side)} : side \in {"right", "bottom"}}}

GenIdle ==
  /\ gin = Null /\ gpc = "idle" /\ lay = Null /\ gr = 0 /\ gc = 0
  /\ shapes = << >> /\ gpieces = << >> /\ loadedCount = 0 /\ promise = "pending"

PathIdle == pin = Null /\ ppc = "idle" /\ pathA = << >> /\ pathB = << >>

GameIdle ==
  /\ st = Null /\ rd = Null /\ piecesDirty = FALSE /\ client = Null
  /\ timerFired = FALSE /\ reqs = << >> /\ leaves = 0 /\ wroteBy = 0
  /\ staleWrite = FALSE

GenStart(inputs) ==
  /\ gin \in inputs /\ gpc = "load" /\ lay = Null /\ gr = 0 /\ gc = 0
  /\ shapes = << >> /\ gpieces = << >> /\ loadedCount = 0 /\ promise = "pending"

\* the aspect fit alone
LayoutInit == GenStart(LayInputs) /\ PathIdle /\ GameIdle

LayoutNext == ImgLoad

LayoutSpec == LayoutInit /\ [][LayoutNext]_vars

\* the shape grid loop
ShapeInit == GenStart(GridInputs(MaxCells)) /\ PathIdle /\ GameIdle

ShapeNext == ImgLoad \/ ShapeCell

ShapeSpec == ShapeInit /\ [][ShapeNext]_vars

\* one whole call of generatePuzzle
GenInit == GenStart(GridInputs(MaxGenCells)) /\ PathIdle /\ GameIdle

GenNext == ImgLoad \/ ImgError \/ ShapeCell \/ PieceCell

GenSpec == GenInit /\ [][GenNext]_vars

\* whole calls for containers in which the piece sizes are not whole numbers
\* (maxContainerWidth 10) and in which they are (12), and a 5x13 image cut
\* with gridSize 1 for a 3x8 container (puzzleHeight 7.8, three rows)
TileInputs ==
  {in \in {GenInput(w, h, g, box, box) :
             w \in 1..MaxImg, h \in 1..MaxImg, g \in 1..MaxGrid, box \in {10, GenBox.maxW}} :
     CellCount(in) <= MaxGenCells}
  \cup {GenInput(5, 13, 1, 3, 8)}

TileInit == GenStart(TileInputs) /\ PathIdle /\ GameIdle

TileNext == ImgLoad \/ ImgError \/ ShapeCell \/ PieceCell

TileSpec == TileInit /\ [][TileNext]_vars

\* the paths of two neighbouring pieces
PathInit ==
  /\ GenIdle /\ GameIdle
  /\ pin \in MatingInputs /\ ppc = "A" /\ pathA = << >> /\ pathB = << >>

PathNext == RasterA \/ RasterB

PathSpec == PathInit /\ [][PathNext]_vars

\* one mounted JigsawGame
GameInit ==
  /\ GenIdle /\ PathIdle
  /\ st = InitialState /\ rd = InitialState /\ piecesDirty = FALSE
  /\ client \in ClientSizes /\ timerFired = FALSE /\ reqs = << >> /\ leaves = 0
  /\ wroteBy = 0 /\ staleWrite = FALSE

\* the player's pointer on the board of one generation
GameNext ==
  \/ TimerFires \/ Resolve \/ Reject
  \/ PointerDown \/ PointerMove \/ PointerUp \/ PointerLeave
  \/ Render

GameSpec == GameInit /\ [][GameNext]_vars

\* generations requested while others are in flight
RequestNext ==
  \/ TimerFires \/ Resize \/ Resolve \/ Reject
  \/ PointerDown \/ Render \/ Tick

RequestSpec == GameInit /\ [][RequestNext]_vars

\* a board in play with all pieces but the last one snapped: each was raised
\* to zIndex 2 by its pointerdown and sent to zIndex 0 by its pointerup
EndgamePieces(ps) ==
  [k \in DOMAIN ps |->
     IF k < Len(ps)
     THEN [ps[k] EXCEPT !.currentPos = ps[k].correctPos, !.isLocked = TRUE, !.zIndex = 0]
     ELSE ps[k]]

\* the state of such a game, the timer started by the first pointerdown
EndgameState(result) ==
  [InitialState EXCEPT !.pieces = EndgamePieces(result.pieces),
                       !.containerSize = result.containerSize,
                       !.isLoading = FALSE, !.timerActive = TRUE, !.startTime = "set"]

\* the calls made so far: the timer's, resolved, and possibly one from a
\* resize while the timer's was in flight, still pending
EndgameRequests(cs) ==
  {<<[client |-> cs, status |-> "resolved", before |-> Null, after |-> Null]>>,
   <<[client |-> cs, status |-> "resolved", before |-> Null, after |-> Null],
     Request(cs, InitGameHead(InitialState))>>}

\* a game one piece before its end
EndgameInit ==
  /\ GenIdle /\ PathIdle
  /\ client \in ClientSizes
  /\ \E v \in GameEdges, rand \in ShuffleRands :
        st = EndgameState(GameResults[client, v, rand])
  /\ rd = st /\ piecesDirty = FALSE /\ timerFired = TRUE
  /\ reqs \in EndgameRequests(client)
  /\ leaves = 0 /\ wroteBy = 1 /\ staleWrite = FALSE

\* the end of a game and the generations around it
EndgameNext ==
  \/ Resize \/ Resolve \/ Reject
  \/ PointerDown \/ PointerMove \/ PointerUp
  \/ Render

EndgameSpec == EndgameInit /\ [][EndgameNext]_vars

\* the handlers alone, on the last piece of a game and its locked neighbours
HandlerInit == EndgameInit /\ Len(reqs) = 1

HandlerNext ==
  \/ PointerDown \/ PointerMove \/ PointerUp \/ PointerLeave
  \/ Render

HandlerSpec == HandlerInit /\ [][HandlerNext]_vars

(***************************************************************************)
(* The shape grid.                                                         *)
(***************************************************************************)
\* the shape loop has run to its end
ShapesDone == gpc \in {"pieces", "returned"}

\* the cells assigned so far mate with their assigned right and bottom
\* neighbours
Mated ==
  \A cell \in DOMAIN shapes :
     /\ <<cell[1], cell[2] + 1>> \in DOMAIN shapes
          => shapes[cell].right = -shapes[<<cell[1], cell[2] + 1>>].left
     /\ <<cell[1] + 1, cell[2]>> \in DOMAIN shapes
          => shapes[cell].bottom = -shapes[<<cell[1] + 1, cell[2]>>].top

\* the neighbours the next iteration reads have been assigned
NeighboursWritten ==
  gpc = "shapes" =>
     /\ gr > 0 => <<gr - 1, gc>> \in DOMAIN shapes
     /\ gc > 0 => <<gr, gc - 1>> \in DOMAIN shapes

\* an assigned cell is never assigned again
WrittenIsFinal ==
  \A cell \in DOMAIN shapes : cell \in DOMAIN shapes' /\ shapes'[cell] = shapes[cell]

\* C1: in every grid and for every outcome of the random choices, right mates
\* with the right neighbour's left and bottom with the bottom neighbour's top
\* (each the negation of the other), over the whole grid once the loop is done
\* and over the assigned cells before; the top and left an iteration reads are
\* of cells assigned before, and an assigned cell never changes again.
ShapesMate ==
  /\ [](Mated /\ NeighboursWritten
        /\ (ShapesDone => DOMAIN shapes = Cells(lay.rows, lay.cols)))
  /\ [][WrittenIsFinal]_vars

\* a finished 3x3 grid whose centre cell has a tab on top of a slot and a slot
\* left of a tab
ShapesMateWitness ==
  /\ ShapesDone /\ lay.rows = 3 /\ lay.cols = 3
  /\ shapes[<<0, 1>>].bottom = 1 /\ shapes[<<1, 1>>].top = -1
  /\ shapes[<<1, 0>>].right = -1 /\ shapes[<<1, 1>>].left = 1

\* C2: in the finished grid every edge value is -1, 0 or 1, and it is 0
\* exactly on the puzzle border: top of row 0, bottom of the last row, left of
\* column 0, right of the last column.
FlatIffBorder ==
  ShapesDone =>
    \A cell \in Cells(lay.rows, lay.cols) :
       /\ {shapes[cell].top, shapes[cell].right, shapes[cell].bottom, shapes[cell].left}
            \subseteq {-1, 0, 1}
       /\ shapes[cell].top = 0 <=> cell[1] = 0
       /\ shapes[cell].bottom = 0 <=> cell[1] = lay.rows - 1
       /\ shapes[cell].left = 0 <=> cell[2] = 0
       /\ shapes[cell].right = 0 <=> cell[2] = lay.cols - 1

\* a finished 3x3 grid: cell (0, 0) is flat on top and left, a slot on the
\* right and a tab at the bottom
FlatIffBorderWitness ==
  /\ ShapesDone /\ lay.rows = 3 /\ lay.cols = 3
  /\ shapes[<<0, 0>>] = [top |-> 0, right |-> -1, bottom |-> 1, left |-> 0]

(***************************************************************************)
(* The promise of generatePuzzle.                                          *)
(***************************************************************************)
\* C3: a resolved promise carries one piece for each cell of the grid, with
\* id row * cols + col, so rows * cols pieces of pairwise distinct ids; it is
\* never resolved with fewer, also when a context could not be acquired.
ResolvedComplete ==
  promise = "resolved" =>
    /\ Len(gpieces) = lay.rows * lay.cols
    /\ \A cell \in Cells(lay.rows, lay.cols) :
          \E k \in DOMAIN gpieces :
             /\ gpieces[k].row = cell[1] /\ gpieces[k].col = cell[2]
             /\ gpieces[k].id = cell[1] * lay.cols + cell[2]
    /\ \A j, k \in DOMAIN gpieces : gpieces[j].id = gpieces[k].id => j = k

\* a 2x2 puzzle resolved with its four pieces
ResolvedCompleteWitness ==
  promise = "resolved" /\ lay.rows = 2 /\ lay.cols = 2 /\ Len(gpieces) = 4

\* C5: once the image load outcome is delivered the call settles: rejected
\* when the image failed, resolved once every cell has been attempted, also
\* when the context of some piece could not be acquired.
AlwaysSettles ==
  /\ gpc = "failed" => promise = "rejected"
  /\ gpc = "returned" => promise = "resolved"

(***************************************************************************)
(* The aspect fit.  The claims speak of the real numbers the doubles are:   *)
(* products below are exact, not rounded.                                  *)
(***************************************************************************)
\* the real x * y, as an unrounded triple
FMulExact(x, y) == [s |-> x.s * y.s, m |-> BMul(x.m, y.m), e |-> x.e + y.e]

\* 1 + 2^-52 and 1 + 2^-51
OneUlpMore == [s |-> 1, m |-> BAdd(BShl(<<1>>, 52), <<1>>), e |-> -52]

TwoUlpsMore == [s |-> 1, m |-> BAdd(BShl(<<1>>, 51), <<1>>), e |-> -51]

\* img.onload has computed the puzzle size
FitDone == gpc = "shapes"

\* the scenario: 800x400 in 500x500 gives 500x250
FitExample ==
  (gin.imgW = 800 /\ gin.imgH = 400 /\ gin.maxW = 500 /\ gin.maxH = 500)
    => lay.puzzleWidth = FFromInt(500) /\ lay.puzzleHeight = FFromInt(250)

\* equality on at least one axis
FitTouches ==
  lay.puzzleWidth = FFromInt(gin.maxW) \/ lay.puzzleHeight = FFromInt(gin.maxH)

\* C7 as stated: the puzzle size is within both bounds, equal to the bound on
\* at least one axis, and puzzleWidth * imgH = puzzleHeight * imgW exactly;
\* 800x400 in 500x500 gives 500x250.
AspectFitExact ==
  FitDone =>
    /\ FLe(lay.puzzleWidth, FFromInt(gin.maxW))
    /\ FLe(lay.puzzleHeight, FFromInt(gin.maxH))
    /\ FitTouches
    /\ FCmp(FMulExact(lay.puzzleWidth, FFromInt(gin.imgH)),
            FMulExact(lay.puzzleHeight, FFromInt(gin.imgW))) = 0
    /\ FitExample

\* how far the fit is off: the puzzle size equals the bound on at least one
\* axis and exceeds it on the other by at most the factor 1 + 2^-52 (one
\* rounding), and each of puzzleWidth * imgH and puzzleHeight * imgW is at most
\* 1 + 2^-51 times the other; 800x400 in 500x500 gives exactly 500x250.
AspectFitRounded ==
  FitDone =>
    /\ FLe(lay.puzzleWidth, FMulExact(FFromInt(gin.maxW), OneUlpMore))
    /\ FLe(lay.puzzleHeight, FMulExact(FFromInt(gin.maxH), OneUlpMore))
    /\ FitTouches
    /\ FLe(FMulExact(lay.puzzleWidth, FFromInt(gin.imgH)),
           FMulExact(FMulExact(lay.puzzleHeight, FFromInt(gin.imgW)), TwoUlpsMore))
    /\ FLe(FMulExact(lay.puzzleHeight, FFromInt(gin.imgW)),
           FMulExact(FMulExact(lay.puzzleWidth, FFromInt(gin.imgH)), TwoUlpsMore))
    /\ FitExample

\* the scenario's image fitted: 500x250
AspectFitWitness ==
  /\ FitDone
  /\ gin.imgW = 800 /\ gin.imgH = 400 /\ gin.maxW = 500 /\ gin.maxH = 500
  /\ lay.puzzleWidth = FFromInt(500) /\ lay.puzzleHeight = FFromInt(250)

(***************************************************************************)
(* The bump paths.                                                         *)
(***************************************************************************)
\* the number of canvas calls drawJigsawPath makes for a side of value v
EdgeLen(v) == IF v # 0 THEN 3 ELSE 1

\* the position in the path of the first call for a side
EdgeFirst(shape, side) ==
  IF side = "top" THEN 2
  ELSE IF side = "right" THEN 2 + EdgeLen(shape.top)
  ELSE IF side = "bottom" THEN 2 + EdgeLen(shape.top) + EdgeLen(shape.right)
  ELSE 2 + EdgeLen(shape.top) + EdgeLen(shape.right) + EdgeLen(shape.bottom)

\* where a canvas call leaves the current point
EndPoint(cmd) == <<cmd[Len(cmd) - 1], cmd[Len(cmd)]>>

\* a point of a piece's canvas, in the coordinates of the whole puzzle
ToGlobal(p, cell) == <<p[1] + GlobalX(cell), p[2] + GlobalY(cell)>>

\* the call path[k] as a segment from the current point: a straight segment
\* <<"L", from, to>> or a bezier <<"C", from, control 1, control 2, to>>
Segment(path, k, cell) ==
  IF path[k][1] = "L"
  THEN <<"L", ToGlobal(EndPoint(path[k - 1]), cell), ToGlobal(EndPoint(path[k]), cell)>>
  ELSE <<"C", ToGlobal(EndPoint(path[k - 1]), cell),
              ToGlobal(<<path[k][2], path[k][3]>>, cell),
              ToGlobal(<<path[k][4], path[k][5]>>, cell),
              ToGlobal(EndPoint(path[k]), cell)>>

\* the ordered segment list of a side
EdgeSegments(path, shape, side, cell) ==
  [k \in 1..EdgeLen(shape[side]) |-> Segment(path, EdgeFirst(shape, side) + k - 1, cell)]

\* a segment traversed the other way
Backwards(seg) ==
  IF seg[1] = "L" THEN <<"L", seg[3], seg[2]>>
  ELSE <<"C", seg[5], seg[4], seg[3], seg[2]>>

\* a segment list traversed the other way
ReverseSegments(segs) == [k \in 1..Len(segs) |-> Backwards(segs[Len(segs) + 1 - k])]

\* C8: in the coordinates of the whole puzzle, the segment list of piece A's
\* right (or bottom) side with value s is exactly the reverse of the segment
\* list of its neighbour's left (or top) side with value -s.
SharedEdgeCoincides ==
  ppc = "done" =>
    ReverseSegments(EdgeSegments(pathA, pin.shapeA, pin.side, <<pin.r, pin.c>>))
      = EdgeSegments(pathB, pin.shapeB, IF pin.side = "right" THEN "left" ELSE "top", CellB)

\* how far outside the piece body the head of a side's bump lies: the distance
\* from the side's line of the point where the bump's two beziers meet,
\* negative when that point is inside the body
ApexOutside(path, shape, side) ==
  LET apex == EndPoint(path[EdgeFirst(shape, side)])
  IN  IF side = "top" THEN pin.tabSize - apex[2]
      ELSE IF side = "right" THEN apex[1] - (pin.tabSize + pin.w)
      ELSE IF side = "bottom" THEN apex[2] - (pin.tabSize + pin.h)
      ELSE pin.tabSize - apex[1]

\* C9: on each of the four sides, value +1 puts the head of the bump tabSize
\* pixels outside the piece body and value -1 puts it tabSize pixels inside.
TabPointsOutward ==
  ppc \in {"B", "done"} =>
    \A side \in {"top", "right", "bottom", "left"} :
       pin.shapeA[side] # 0
         => ApexOutside(pathA, pin.shapeA, side) = pin.shapeA[side] * pin.tabSize

(***************************************************************************)
(* The game.                                                               *)
(***************************************************************************)
\* the generatePuzzle calls have all settled
AllSettled == \A i \in DOMAIN reqs : reqs[i].status # "pending"

\* C4: the result of a call is never written to the state after a later call
\* was made, and once all calls have settled, the latest one resolved, pieces
\* and containerSize are those of the latest call.
LastRequestWins ==
  /\ ~staleWrite
  /\ (AllSettled /\ Len(reqs) > 0 /\ reqs[Len(reqs)].status = "resolved")
       => /\ wroteBy = Len(reqs)
          /\ st.containerSize =
               [width  |-> FToInt(GameLayouts[reqs[Len(reqs)].client].puzzleWidth),
                height |-> FToInt(GameLayouts[reqs[Len(reqs)].client].puzzleHeight)]

\* C6: when a call is rejected, nothing but that call having changed pieces,
\* completed flag and timer fields since it was made, the game either shows
\* the loading indicator or has the pieces, completed flag and timer fields it
\* had before the call was made.
FailureKeepsState ==
  [][\A i \in DOMAIN reqs :
        (reqs[i].status = "pending" /\ reqs'[i].status = "rejected"
           /\ Snapshot(st) = reqs[i].after)
          => (st'.isLoading \/ Snapshot(st') = reqs[i].before)]_vars

\* the dragged piece is released
ReleaseStep == st.draggedPieceId # NoPiece /\ st'.draggedPieceId = NoPiece

\* C10: when the dragged piece is released closer to its correctPos than the
\* snap tolerance it is locked at correctPos, and when it is released farther
\* than the tolerance it stays unlocked where it was dropped.
ReleaseSnapsInTolerance ==
  [][ReleaseStep =>
       LET before == FindPiece(st.pieces, st.draggedPieceId)
           after  == FindPiece(st'.pieces, st.draggedPieceId)
           d2     == Dist2(before.currentPos, before.correctPos)
       IN  /\ d2 < SNAP_TOLERANCE * SNAP_TOLERANCE
                => after.isLocked /\ after.currentPos = before.correctPos
           /\ d2 > SNAP_TOLERANCE * SNAP_TOLERANCE
                => ~after.isLocked /\ after.currentPos = before.currentPos]_vars

(***************************************************************************)
(* Completion.                                                             *)
(***************************************************************************)
\* the board is shown, rendered up to date, with every piece locked
ShownSolved ==
  /\ st = rd /\ ~piecesDirty /\ ~st.isLoading
  /\ Len(st.pieces) > 0 /\ AllLocked(st.pieces)

\* completed goes from false to true
Fires == ~st.completed /\ st'.completed

\* C11: a non-empty puzzle shown with all its pieces locked has completed set
\* and the timer stopped; completed is set only when all pieces are locked and
\* were not yet shown so (it does not fire again for a puzzle already shown
\* solved), and once set it stays set until a generation is requested or
\* settles.
CompletionFiresOnce ==
  /\ [](ShownSolved => st.completed /\ ~st.timerActive)
  /\ [][Fires => /\ Len(st'.pieces) > 0 /\ AllLocked(st'.pieces)
                  /\ ~(Len(rd.pieces) > 0 /\ AllLocked(rd.pieces))]_vars
  /\ [][(st.completed /\ reqs' = reqs) => st'.completed]_vars

(***************************************************************************)
(* The interaction handlers and the pieces.                                *)
(***************************************************************************)
\* the fields the generator owns
OwnedFields(p) ==
  [id |-> p.id, row |-> p.row, col |-> p.col, shape |-> p.shape,
   correctPos |-> p.correctPos, width |-> p.width, height |-> p.height,
   imgUrl |-> p.imgUrl]

\* a step of a handler: no generation is requested or settles
HandlerStep == reqs' = reqs

\* C12: a handler step adds or removes no piece, changes no generator-owned
\* field of any piece, and changes no piece but the one pressed or dragged.
HandlersKeepOwnedFields ==
  [][HandlerStep =>
       /\ Len(st'.pieces) = Len(st.pieces)
       /\ \A k \in DOMAIN st.pieces :
             /\ OwnedFields(st'.pieces[k]) = OwnedFields(st.pieces[k])
             /\ st'.pieces[k] # st.pieces[k]
                  => st.pieces[k].id \in {rd.draggedPieceId, st'.draggedPieceId}]_vars

\* a piece was pressed, dragged away and then snapped, and another one is
\* being dragged, raised and moved
HandlersKeepOwnedFieldsWitness ==
  \E j, k \in DOMAIN st.pieces :
     /\ st.pieces[j].isLocked /\ st.pieces[j].currentPos = st.pieces[j].correctPos
     /\ st.draggedPieceId = st.pieces[k].id
     /\ st.pieces[k].zIndex > 1
     /\ st.pieces[k].currentPos.x = st.pieces[k].correctPos.x + 3

(***************************************************************************)
(* The tiling of the puzzle by the piece bodies.  Products and sums are the *)
(* doubles the code computes (col * pieceWidth, ... - tabSize).             *)
(***************************************************************************)
\* col * pieceWidth and row * pieceHeight
BodyLeft(col) == FMul(FFromInt(col), lay.pieceWidth)

BodyTop(row) == FMul(FFromInt(row), lay.pieceHeight)

\* correctPos is (col * pieceWidth - tabSize, row * pieceHeight - tabSize)
CorrectPosPlaced ==
  \A k \in DOMAIN gpieces :
     /\ gpieces[k].correctPos.x = FSub(BodyLeft(gpieces[k].col), lay.tabSize)
     /\ gpieces[k].correctPos.y = FSub(BodyTop(gpieces[k].row), lay.tabSize)

\* adding tabSize back to correctPos gives the corner of the body rectangle
AddBackExact ==
  \A k \in DOMAIN gpieces :
     /\ FAdd(gpieces[k].correctPos.x, lay.tabSize) = BodyLeft(gpieces[k].col)
     /\ FAdd(gpieces[k].correctPos.y, lay.tabSize) = BodyTop(gpieces[k].row)

\* x and y agree within the factor 1 + 2^-51
Near(x, y) == FLe(x, FMulExact(y, TwoUlpsMore)) /\ FLe(y, FMulExact(x, TwoUlpsMore))

\* adding tabSize back gives that corner up to the rounding of the two sums
AddBackRounded ==
  \A k \in DOMAIN gpieces :
     /\ Near(FAdd(gpieces[k].correctPos.x, lay.tabSize), BodyLeft(gpieces[k].col))
     /\ Near(FAdd(gpieces[k].correctPos.y, lay.tabSize), BodyTop(gpieces[k].row))

\* the rectangles [col * pieceWidth, (col + 1) * pieceWidth) x
\* [row * pieceHeight, (row + 1) * pieceHeight) of two pieces are disjoint
BodiesDisjoint(p, q) ==
  \/ FLe(BodyLeft(p.col + 1), BodyLeft(q.col)) \/ FLe(BodyLeft(q.col + 1), BodyLeft(p.col))
  \/ FLe(BodyTop(p.row + 1), BodyTop(q.row)) \/ FLe(BodyTop(q.row + 1), BodyTop(p.row))

\* the rectangles of the pieces are pairwise disjoint and leave no gap from
\* (0, 0) on: none is empty, the columns and the rows start at 0, and every
\* cell of the grid has its piece
BodiesChain ==
  /\ \A j, k \in DOMAIN gpieces : j # k => BodiesDisjoint(gpieces[j], gpieces[k])
  /\ \A c \in 0..(lay.cols - 1) : FLt(BodyLeft(c), BodyLeft(c + 1))
  /\ \A r \in 0..(lay.rows - 1) : FLt(BodyTop(r), BodyTop(r + 1))
  /\ BodyLeft(0) = FZero /\ BodyTop(0) = FZero
  /\ \A cell \in Cells(lay.rows, lay.cols) :
        \E k \in DOMAIN gpieces : gpieces[k].row = cell[1] /\ gpieces[k].col = cell[2]

\* the last column ends at puzzleWidth and the last row at puzzleHeight
BodiesReachExact ==
  BodyLeft(lay.cols) = lay.puzzleWidth /\ BodyTop(lay.rows) = lay.puzzleHeight

\* they end there up to the rounding of the quotient and of the product
BodiesReachRounded ==
  Near(BodyLeft(lay.cols), lay.puzzleWidth) /\ Near(BodyTop(lay.rows), lay.puzzleHeight)

\* C13 as stated: in a resolved generation correctPos is (col * pieceWidth -
\* tabSize, row * pieceHeight - tabSize), adding tabSize back gives exactly the
\* body rectangles [col * pieceWidth, (col + 1) * pieceWidth) x [row *
\* pieceHeight, (row + 1) * pieceHeight), and these are pairwise disjoint with
\* union [0, puzzleWidth) x [0, puzzleHeight).
BodiesTileExact ==
  promise = "resolved" =>
    CorrectPosPlaced /\ AddBackExact /\ BodiesChain /\ BodiesReachExact

\* C13 as amended: the same up to rounding: adding tabSize back gives the
\* corner of the body rectangle within the factor 1 + 2^-51, and the union of
\* the rectangles is [0, cols * pieceWidth) x [0, rows * pieceHeight), which
\* is the puzzle rectangle within the factor 1 + 2^-51 on each axis.
BodiesTileRounded ==
  promise = "resolved" =>
    CorrectPosPlaced /\ AddBackRounded /\ BodiesChain /\ BodiesReachRounded

\* a resolved 2x2 puzzle whose last piece lies at (pieceWidth - tabSize,
\* pieceHeight - tabSize)
BodiesTileWitness ==
  /\ promise = "resolved" /\ lay.rows = 2 /\ lay.cols = 2
  /\ \E k \in DOMAIN gpieces :
        /\ gpieces[k].row = 1 /\ gpieces[k].col = 1
        /\ gpieces[k].correctPos.x = FSub(lay.pieceWidth, lay.tabSize)
        /\ FLt(FZero, gpieces[k].correctPos.x)


(***************************************************************************)
(* The completed flag and the pieces.                                       *)
(***************************************************************************)

\* C14: in every reachable state of JigsawGame, under every interleaving of
\* the generation requests, their results and the pointer events, completed
\* is true only if pieces is non-empty and every piece in it is locked
CompletedOnlyWhenSolved ==
  st.completed => Len(st.pieces) > 0 /\ AllLocked(st.pieces)

(***************************************************************************)
(* Locked pieces.                                                           *)
(***************************************************************************)

\* a locked piece sits at its correctPos and is not the dragged piece
LockedInPlace(s) ==
  \A k \in DOMAIN s.pieces :
     s.pieces[k].isLocked =>
        /\ s.pieces[k].currentPos = s.pieces[k].correctPos
        /\ s.pieces[k].id # s.draggedPieceId

\* the step leaves every locked piece locked and where it was
LockedKept ==
  \A k \in DOMAIN st.pieces :
     st.pieces[k].isLocked =>
        /\ k \in DOMAIN st'.pieces
        /\ st'.pieces[k].isLocked
        /\ st'.pieces[k].currentPos = st.pieces[k].currentPos

\* C15: in every reachable state of JigsawGame a locked piece has
\* currentPos = correctPos and is not the dragged piece, and between
\* regenerations no pointer event moves a locked piece or unlocks it
LockedStaysPut ==
  /\ []LockedInPlace(st)
  /\ [][HandlerStep => LockedKept]_vars


=============================================================================
